---- MODULE Spec2Model ----
(***************************************************************************)
(* Broadcast Performance Metrics (bpm): the track registry, the counter    *)
(* store behind the process-wide mutex STATE, and the three SEI message    *)
(* encoders of src/src/lib.rs.                                             *)
(*                                                                         *)
(* Rust Vec and array indices are 0-based; the sequences here are 1-based, *)
(* so element i of a Vec v is v[i + 1].                                    *)
(***************************************************************************)
EXTENDS Integers, Sequences, FiniteSets, TLC

(***************************************************************************)
(* Program constants                                                       *)
(***************************************************************************)
MAX_OUTPUT_VIDEO_ENCODERS == 6

SEI_UUID_SIZE == 16

UUID_TS == << 10, 236, 255, 231, 82, 114, 78, 47, 166, 47, 209, 156, 214, 26, 147, 181 >>

UUID_SM == << 202, 96, 231, 28, 106, 139, 67, 136, 163, 119, 21, 29, 247, 191, 138, 194 >>

UUID_ERM == << 241, 251, 193, 213, 16, 30, 79, 181, 166, 30, 184, 206, 60, 7, 184, 192 >>

BPM_SM_FRAMES_RENDERED == 1

BPM_SM_FRAMES_LAGGED == 2

BPM_SM_FRAMES_DROPPED == 3

BPM_SM_FRAMES_OUTPUT == 4

BPM_ERM_FRAMES_INPUT == 1

BPM_ERM_FRAMES_SKIPPED == 2

BPM_ERM_FRAMES_OUTPUT == 3

NULL == 0

TS_TYPE == 1

BPM_TS_EVENT_CTS == 1

BPM_TS_EVENT_FER == 2

BPM_TS_EVENT_FERC == 3

BPM_TS_EVENT_PIR == 4

\* Array lengths of the three messages: [u8; 125], [u8; 66], [u8; 60].
TS_LEN == 125

SM_LEN == 66

ERM_LEN == 60

\* A u32 is held as its two 16-bit halves, [hi, lo], its value being
\* hi * 2^16 + lo: TLC's integers are narrower than 2^32.
Half == 2^16

U32(hi, lo) == [hi |-> hi, lo |-> lo]

\* 0u32
U32Zero == U32(0, 0)

\* u32::MAX
U32_MAX == U32(Half - 1, Half - 1)

\* The value of a u32 below 2^31, as an integer.
Val(x) == x.hi * Half + x.lo

(***************************************************************************)
(* Bounds of the model                                                     *)
(***************************************************************************)
\* Frame events (encoded, lagged, dropped) recorded in one behaviour.
MaxEvents == 2

\* Calls the concurrent threads make between them in one behaviour.
MaxThreadCalls == 3

(***************************************************************************)
(* Inputs of the model                                                     *)
(***************************************************************************)
\* The pool of distinct valid fingerprints callers use: one more than the
\* registry can hold.
NumFingerprints == MAX_OUTPUT_VIDEO_ENCODERS + 1

\* The n-th fingerprint of the pool, as the bytes of its C string:
\* "\u{e9}" (two bytes of UTF-8), then "b", "c", ...
FP(n) == IF n = 1 THEN << 195, 169 >> ELSE << 96 + n >>

\* A *const c_char argument: the null pointer, or a pointer to a
\* NUL-terminated string with these bytes before the NUL.
NullPtr == [null |-> TRUE, bytes |-> << >>]

CStr(b) == [null |-> FALSE, bytes |-> b]

\* C strings that are not valid UTF-8: a stray 0xFF, a truncated two-byte
\* sequence, an overlong encoding.
BadStrings == { << 255 >>, << 98, 195 >>, << 192, 128 >> }

\* track_idx arguments: the primary track, another track, the last index of
\* the counter arrays and the first one past their end.
TrackIdxInputs == { 0, 1, MAX_OUTPUT_VIDEO_ENCODERS - 1, MAX_OUTPUT_VIDEO_ENCODERS }

\* Instants (epoch milliseconds) the wall clock shows when Utc::now() is read.
ClockMillis == { 1000, 59999 }

\* (ts_cts, ts_fer, ts_ferc, ts_pir) arguments of bpm_ts.
TsInputs == { << 0, 0, 0, 0 >>, << 2500, 0, -1, 59999 >> }

(***************************************************************************)
(* Text and byte helpers                                                   *)
(***************************************************************************)
\* Length of the UTF-8 sequence starting at b[i], 0 if it is not well formed
\* (the table core::str::from_utf8 validates against).
Utf8SeqLen(b, i) ==
    LET n == Len(b)
        b0 == b[i]
        c(j, lo, hi) == i + j <= n /\ lo <= b[i + j] /\ b[i + j] <= hi
    IN  IF b0 < 128 THEN 1
        ELSE IF 194 <= b0 /\ b0 <= 223
             THEN IF c(1, 128, 191) THEN 2 ELSE 0
        ELSE IF b0 = 224
             THEN IF c(1, 160, 191) /\ c(2, 128, 191) THEN 3 ELSE 0
        ELSE IF (225 <= b0 /\ b0 <= 236) \/ b0 = 238 \/ b0 = 239
             THEN IF c(1, 128, 191) /\ c(2, 128, 191) THEN 3 ELSE 0
        ELSE IF b0 = 237
             THEN IF c(1, 128, 159) /\ c(2, 128, 191) THEN 3 ELSE 0
        ELSE IF b0 = 240
             THEN IF c(1, 144, 191) /\ c(2, 128, 191) /\ c(3, 128, 191) THEN 4 ELSE 0
        ELSE IF 241 <= b0 /\ b0 <= 243
             THEN IF c(1, 128, 191) /\ c(2, 128, 191) /\ c(3, 128, 191) THEN 4 ELSE 0
        ELSE IF b0 = 244
             THEN IF c(1, 128, 143) /\ c(2, 128, 191) /\ c(3, 128, 191) THEN 4 ELSE 0
        ELSE 0

RECURSIVE IsUtf8From(_, _)
IsUtf8From(b, i) ==
    IF i > Len(b) THEN TRUE
    ELSE LET k == Utf8SeqLen(b, i)
         IN  k > 0 /\ IsUtf8From(b, i + k)

\* CStr::to_str
IsUtf8(b) == IsUtf8From(b, 1)

\* c_char_to_string with neither the null test nor the UTF-8 validation.
c_char_to_string_unchecked(ptr) == [some |-> TRUE, val |-> ptr.bytes]

\* c_char_to_string: None for the null pointer and for bytes that are not
\* UTF-8, else Some(the string).
c_char_to_string(ptr) ==
    IF ptr.null THEN [some |-> FALSE, val |-> << >>]
    ELSE IF IsUtf8(ptr.bytes) THEN [some |-> TRUE, val |-> ptr.bytes]
    ELSE [some |-> FALSE, val |-> << >>]

Digit(d) == 48 + d

\* DateTime::to_rfc3339_opts(SecondsFormat::Millis, true) of an instant in
\* the first minute after the epoch: "1970-01-01T00:00:SS.mmmZ", 24 bytes.
Rfc3339(ms) ==
    LET ss == ms \div 1000
        mmm == ms % 1000
    IN  << 49, 57, 55, 48, 45, 48, 49, 45, 48, 49, 84, 48, 48, 58, 48, 48, 58 >>
        \o << Digit(ss \div 10), Digit(ss % 10), 46 >>
        \o << Digit(mmm \div 100), Digit((mmm \div 10) % 10), Digit(mmm % 10), 90 >>

\* millis_in_rfc3339
millis_in_rfc3339(timestamp_ms) == Rfc3339(timestamp_ms)

\* now_in_rfc3339: every text the clock can yield.
now_in_rfc3339 == { Rfc3339(t) : t \in ClockMillis }

\* u32::to_be_bytes
to_be_bytes(x) ==
    << x.hi \div 256, x.hi % 256, x.lo \div 256, x.lo % 256 >>

\* u32::from_be_bytes, for reading a counter value back out of a message.
from_be_bytes(b) == U32(b[1] * 256 + b[2], b[3] * 256 + b[4])

\* [0; n]
Zeros(n) == [i \in 1 .. n |-> 0]

\* a[lo..hi].copy_from_slice(src), with hi - lo = src.len()
CopyFromSlice(a, lo, hi, src) ==
    [i \in 1 .. Len(a) |-> IF lo < i /\ i <= hi THEN src[i - lo] ELSE a[i]]

\* a[i] = b
SetByte(a, i, b) == [a EXCEPT ![i + 1] = b]

\* a[lo..hi]
Slice(a, lo, hi) == [i \in 1 .. (hi - lo) |-> a[lo + i]]

(***************************************************************************)
(* State                                                                   *)
(***************************************************************************)
VARIABLES
    state,      \* the State behind the global mutex STATE
    aborted,    \* the process was aborted by a panic
    last,       \* the last call of the sequential caller: its operation,
                \* arguments and result
    seen,       \* history: the valid fingerprints passed so far, each
                \* once, in the order of their first sighting
    returned,   \* history: every << fingerprint, index >> a call of
                \* bpm_get_track_index returned
    calls,      \* history: calls made so far per operation and track_idx
    sm_win,     \* history: increments due to each session counter since
                \* bpm_sm last returned a message
    erm_win,    \* history: per track, frame events since bpm_erm last
                \* returned a message for it
    lock,       \* holder of the mutex: a thread, or 0
    threads,    \* per thread: the call it is in and where
    begun,      \* history: calls the threads have entered
    heap,       \* the buffers allocated so far, by address (1, 2, ...):
                \* their bytes and whether they are still allocated
    out         \* the caller's variables the out-pointers of the *_ptr
                \* functions point to

vars == << state, aborted, last, seen, returned, calls, sm_win, erm_win, lock, threads,
          begun, heap, out >>

\* The caller's out variables before any call wrote them.
NoOut == [data |-> 0, size |-> 0]

\* State::default
StateDefault ==
    [ track_map   |-> << >>,
      sm_rendered |-> U32Zero,
      sm_lagged   |-> U32Zero,
      sm_dropped  |-> U32Zero,
      sm_output   |-> U32Zero,
      erm_input   |-> [i \in 1 .. MAX_OUTPUT_VIDEO_ENCODERS |-> U32Zero],
      erm_skipped |-> [i \in 1 .. MAX_OUTPUT_VIDEO_ENCODERS |-> U32Zero],
      erm_output  |-> [i \in 1 .. MAX_OUTPUT_VIDEO_ENCODERS |-> U32Zero] ]

(***************************************************************************)
(* The handlers, statement by statement.  A statement maps the State s and *)
(* the locals loc of the call to the set of its possible outcomes:         *)
(*   s, loc      the State and the locals after it                         *)
(*   panicked    the statement panicked (s is the State at that point)    *)
(*   next        the statement to run next, 0 when the function returns    *)
(* Locals: n (an index), v (a loaded counter value), bytes (the message    *)
(* being built).                                                           *)
(***************************************************************************)
Locals0 == [n |-> -1, v |-> U32Zero, bytes |-> << >>]

Goes(s, loc, next) == [s |-> s, loc |-> loc, panicked |-> FALSE, next |-> next]

Panics(s, loc) == [s |-> s, loc |-> loc, panicked |-> TRUE, next |-> 0]

\* x + 1 on a u32 holding x: below u32::MAX the sum; at u32::MAX a build with
\* overflow checks panics and a build without them wraps to 0.
AddOne(x) ==
    IF x.lo < Half - 1 THEN { [v |-> U32(x.hi, x.lo + 1), panicked |-> FALSE] }
    ELSE IF x.hi < Half - 1 THEN { [v |-> U32(x.hi + 1, 0), panicked |-> FALSE] }
    ELSE { [v |-> U32Zero, panicked |-> FALSE], [v |-> x, panicked |-> TRUE] }

\* Position with a comparison that never matches.
Position_never_equal(v, fingerprint) == -1

\* Iterator::position(|x| x == &fingerprint): the 0-based index of the first
\* equal element, -1 for None.
Position(v, fingerprint) ==
    IF \E i \in 1 .. Len(v) : v[i] = fingerprint
    THEN (CHOOSE i \in 1 .. Len(v) :
             v[i] = fingerprint /\ \A j \in 1 .. (i - 1) : v[j] # fingerprint) - 1
    ELSE -1

\* The capacity check with > for >=.
AtCapacity_off_by_one(s) == Len(s.track_map) > MAX_OUTPUT_VIDEO_ENCODERS

\* self.track_map.len() >= MAX_OUTPUT_VIDEO_ENCODERS
AtCapacity(s) == Len(s.track_map) >= MAX_OUTPUT_VIDEO_ENCODERS

\* State::get_track_index
\*   1: position lookup; found: return the index
\*   2: the capacity check
\*   3: push
\*   4: return len() - 1
get_track_index_stmt(k, s, loc, fingerprint) ==
    CASE k = 1 ->
           LET index == Position(s.track_map, fingerprint)
           IN  { Goes(s, [loc EXCEPT !.n = index], IF index >= 0 THEN 0 ELSE 2) }
      [] k = 2 ->
           IF AtCapacity(s)
           THEN { Panics(s, loc) }
           ELSE { Goes(s, loc, 3) }
      [] k = 3 ->
           { Goes([s EXCEPT !.track_map = Append(@, fingerprint)], loc, 4) }
      [] k = 4 ->
           { Goes(s, [loc EXCEPT !.n = Len(s.track_map) - 1], 0) }

\* A counter of the State: a scalar field (elem = -1) or element elem of a
\* per-track Vec.
Scalar(f) == [field |-> f, elem |-> -1]

Elem(f, i) == [field |-> f, elem |-> i]

\* bpm_frame_encoded without its test of track_idx == 0.
EncodedPlaces_every_track_rendered(track_idx) ==
    << Scalar("sm_rendered"), Scalar("sm_output"), Elem("erm_input", track_idx),
       Elem("erm_output", track_idx) >>

\* The counters a frame event increments, in the order of its statements.
\* bpm_frame_encoded
EncodedPlaces(track_idx) ==
    (IF track_idx = 0 THEN << Scalar("sm_rendered") >> ELSE << >>)
    \o << Scalar("sm_output"), Elem("erm_input", track_idx),
          Elem("erm_output", track_idx) >>

\* bpm_frame_lagged without its increment of erm_input.
LaggedPlaces_no_input(track_idx) ==
    << Scalar("sm_lagged"), Elem("erm_skipped", track_idx) >>

\* bpm_frame_lagged
LaggedPlaces(track_idx) ==
    << Scalar("sm_lagged"), Elem("erm_input", track_idx),
       Elem("erm_skipped", track_idx) >>

\* bpm_frame_dropped without its increment of sm_dropped.
DroppedPlaces_no_session(track_idx) ==
    << Elem("erm_input", track_idx), Elem("erm_skipped", track_idx) >>

\* bpm_frame_dropped
DroppedPlaces(track_idx) ==
    << Scalar("sm_dropped"), Elem("erm_input", track_idx),
       Elem("erm_skipped", track_idx) >>

\* A load that reads sm_output whatever the counter being incremented.
LoadPlace_always_sm_output(s, loc, place, next) ==
    { Goes(s, [loc EXCEPT !.v = s.sm_output], next) }

\* place += 1, first half: the bounds check of the index expression and the
\* load of the counter.
LoadPlace(s, loc, place, next) ==
    IF place.elem = -1
    THEN { Goes(s, [loc EXCEPT !.v = s[place.field]], next) }
    ELSE IF place.elem >= Len(s[place.field])
         THEN { Panics(s, loc) }
         ELSE { Goes(s, [loc EXCEPT !.v = s[place.field][place.elem + 1]], next) }

\* place += 1, second half: the addition and the store.
StorePlace(s, loc, place, next) ==
    { IF r.panicked THEN Panics(s, loc)
      ELSE Goes(IF place.elem = -1
                THEN [s EXCEPT ![place.field] = r.v]
                ELSE [s EXCEPT ![place.field][place.elem + 1] = r.v],
                loc, next)
      : r \in AddOne(loc.v) }

\* Statement k of a frame event over its places: 2i - 1 loads place i, 2i
\* stores it.
frame_stmt(k, s, loc, places) ==
    LET i == (k + 1) \div 2
    IN  IF k % 2 = 1
        THEN LoadPlace(s, loc, places[i], k + 1)
        ELSE StorePlace(s, loc, places[i], IF i = Len(places) THEN 0 ELSE k + 1)

\* The part the Session Metrics and the Rendition Metrics messages share:
\* the UUID, one timestamp (type RFC3339, event PIR, the text, NUL), and the
\* byte holding the number of counters minus one.
Header(len, uuid, now, num_counters_minus1) ==
    LET d0 == CopyFromSlice(Zeros(len), 0, SEI_UUID_SIZE, uuid)
        d1 == SetByte(d0, 16, 0)
        d2 == SetByte(d1, 17, TS_TYPE)
        d3 == SetByte(d2, 18, BPM_TS_EVENT_PIR)
        d4 == CopyFromSlice(d3, 19, 43, now)
        d5 == SetByte(d4, 43, NULL)
    IN  SetByte(d5, 44, num_counters_minus1)

\* data[tag_at] = tag; data[tag_at + 1 .. tag_at + 5] = value.to_be_bytes()
PutCounter(data, tag_at, tag, value) ==
    CopyFromSlice(SetByte(data, tag_at, tag), tag_at + 1, tag_at + 5,
                  to_be_bytes(value))

\* bpm_sm, after the lock is taken
\*   1: now, sm_data[0 ..= 44]
\*   2: rendered   3: lagged   4: dropped   5: output; return sm_data
bpm_sm_stmt(k, s, loc) ==
    CASE k = 1 ->
           { Goes(s, [loc EXCEPT !.bytes = Header(SM_LEN, UUID_SM, now, 3)], 2)
             : now \in now_in_rfc3339 }
      [] k = 2 ->
           { Goes(s, [loc EXCEPT !.bytes =
                        PutCounter(@, 45, BPM_SM_FRAMES_RENDERED, s.sm_rendered)], 3) }
      [] k = 3 ->
           { Goes(s, [loc EXCEPT !.bytes =
                        PutCounter(@, 50, BPM_SM_FRAMES_LAGGED, s.sm_lagged)], 4) }
      [] k = 4 ->
           { Goes(s, [loc EXCEPT !.bytes =
                        PutCounter(@, 55, BPM_SM_FRAMES_DROPPED, s.sm_dropped)], 5) }
      [] k = 5 ->
           { Goes(s, [loc EXCEPT !.bytes =
                        PutCounter(@, 61, BPM_SM_FRAMES_OUTPUT, s.sm_output)], 0) }

\* bpm_erm, after the lock is taken
\*   1: now, erm_data[0 ..= 44]
\*   2: input   3: skipped   4: output; return erm_data
\* Indexing a Vec past its end panics.
bpm_erm_stmt(k, s, loc, track_idx) ==
    CASE k = 1 ->
           { Goes(s, [loc EXCEPT !.bytes = Header(ERM_LEN, UUID_ERM, now, 2)], 2)
             : now \in now_in_rfc3339 }
      [] k = 2 ->
           IF track_idx >= Len(s.erm_input) THEN { Panics(s, loc) }
           ELSE { Goes(s, [loc EXCEPT !.bytes =
                             PutCounter(@, 45, BPM_ERM_FRAMES_INPUT,
                                        s.erm_input[track_idx + 1])], 3) }
      [] k = 3 ->
           IF track_idx >= Len(s.erm_skipped) THEN { Panics(s, loc) }
           ELSE { Goes(s, [loc EXCEPT !.bytes =
                             PutCounter(@, 50, BPM_ERM_FRAMES_SKIPPED,
                                        s.erm_skipped[track_idx + 1])], 4) }
      [] k = 4 ->
           IF track_idx >= Len(s.erm_output) THEN { Panics(s, loc) }
           ELSE { Goes(s, [loc EXCEPT !.bytes =
                             PutCounter(@, 55, BPM_ERM_FRAMES_OUTPUT,
                                        s.erm_output[track_idx + 1])], 0) }

\* One timestamp entry of the Timestamp message at offset at: type, event
\* tag, 24 bytes of text, NUL.
PutTimestamp(data, at, event, text) ==
    SetByte(CopyFromSlice(SetByte(SetByte(data, at, TS_TYPE), at + 1, event),
                          at + 2, at + 26, text),
            at + 26, NULL)

\* bpm_ts with its one reading of the clock: a positive argument is
\* formatted, any other stands for now.
bpm_ts(ts_cts, ts_fer, ts_ferc, ts_pir, now) ==
    LET cts == IF ts_cts > 0 THEN millis_in_rfc3339(ts_cts) ELSE now
        fer == IF ts_fer > 0 THEN millis_in_rfc3339(ts_fer) ELSE now
        ferc == IF ts_ferc > 0 THEN millis_in_rfc3339(ts_ferc) ELSE now
        pir == IF ts_pir > 0 THEN millis_in_rfc3339(ts_pir) ELSE now
        d0 == CopyFromSlice(Zeros(TS_LEN), 0, SEI_UUID_SIZE, UUID_TS)
        d1 == SetByte(d0, 16, 3)
        d2 == PutTimestamp(d1, 17, BPM_TS_EVENT_CTS, cts)
        d3 == PutTimestamp(d2, 44, BPM_TS_EVENT_FER, fer)
        d4 == PutTimestamp(d3, 71, BPM_TS_EVENT_FERC, ferc)
    IN  PutTimestamp(d4, 98, BPM_TS_EVENT_PIR, pir)

(***************************************************************************)
(* Calls.  A call is [op, idx, fp]: the operation, its track_idx (-1 if it *)
(* has none) and its fingerprint (empty if it has none).                   *)
(***************************************************************************)
Call(op, idx, fp) == [op |-> op, idx |-> idx, fp |-> fp]

EventOps == { "frame_encoded", "frame_lagged", "frame_dropped" }

\* Statement k of the body of call c, which runs with the mutex held.
Stmt(c, k, s, loc) ==
    CASE c.op = "get_track_index" -> get_track_index_stmt(k, s, loc, c.fp)
      [] c.op = "frame_encoded" -> frame_stmt(k, s, loc, EncodedPlaces(c.idx))
      [] c.op = "frame_lagged" -> frame_stmt(k, s, loc, LaggedPlaces(c.idx))
      [] c.op = "frame_dropped" -> frame_stmt(k, s, loc, DroppedPlaces(c.idx))
      [] c.op = "sm" -> bpm_sm_stmt(k, s, loc)
      [] c.op = "erm" -> bpm_erm_stmt(k, s, loc, c.idx)

\* The body of call c run from statement k to its return or its panic: the
\* outcomes [s, loc, panicked].
RECURSIVE RunFrom(_, _, _, _)
RunFrom(c, k, s, loc) ==
    UNION { IF r.panicked \/ r.next = 0
            THEN { [s |-> r.s, loc |-> r.loc, panicked |-> r.panicked] }
            ELSE RunFrom(c, r.next, r.s, r.loc)
            : r \in Stmt(c, k, s, loc) }

\* The whole body of call c, as one holder of the mutex runs it.
Run(c, s) == RunFrom(c, 1, s, Locals0)

(***************************************************************************)
(* History: what the callers did, counted apart from the State.            *)
(***************************************************************************)
Tracks == 0 .. (MAX_OUTPUT_VIDEO_ENCODERS - 1)

\* Per track_idx argument 0 .. MAX_OUTPUT_VIDEO_ENCODERS, a count of zero.
NoCalls == Zeros(MAX_OUTPUT_VIDEO_ENCODERS + 1)

Calls0 == [frame_encoded |-> NoCalls, frame_lagged |-> NoCalls,
           frame_dropped |-> NoCalls]

\* Calls of op on track_idx so far.
NumCalls(h, op, track_idx) == h[op][track_idx + 1]

RECURSIVE SumSeq(_)
SumSeq(q) == IF q = << >> THEN 0 ELSE Head(q) + SumSeq(Tail(q))

\* Calls of op so far, whatever the track_idx.
NumCallsOf(h, op) == SumSeq(h[op])

\* Frame events so far.
NumEvents == NumCallsOf(calls, "frame_encoded") + NumCallsOf(calls, "frame_lagged")
             + NumCallsOf(calls, "frame_dropped")

\* The history after call c.
Counted(h, c) ==
    IF c.op \in EventOps THEN [h EXCEPT ![c.op][c.idx + 1] = @ + 1] ELSE h

\* seen after call c.
SeenAfter(q, c) ==
    IF c.op = "get_track_index" /\ \A i \in 1 .. Len(q) : q[i] # c.fp
    THEN Append(q, c.fp)
    ELSE q

\* returned after call c returned index n or panicked.
ReturnedAfter(R, c, n, panicked) ==
    IF c.op = "get_track_index" /\ ~panicked THEN R \cup { << c.fp, n >> } ELSE R

SmWin0 == [rendered |-> 0, lagged |-> 0, dropped |-> 0, output |-> 0]

ErmWin0 == [frame_encoded |-> 0, frame_lagged |-> 0, frame_dropped |-> 0]

\* sm_win after call c: a frame event is due one increment of its session
\* counters, a Session Metrics message sent starts a new window.
SmWinAfter(w, c, panicked) ==
    CASE c.op = "frame_encoded" ->
           [w EXCEPT !.output = @ + 1,
                     !.rendered = IF c.idx = 0 THEN @ + 1 ELSE @]
      [] c.op = "frame_lagged" -> [w EXCEPT !.lagged = @ + 1]
      [] c.op = "frame_dropped" -> [w EXCEPT !.dropped = @ + 1]
      [] c.op = "sm" /\ ~panicked -> SmWin0
      [] OTHER -> w

\* erm_win after call c.
ErmWinAfter(w, c, panicked) ==
    IF c.idx \notin Tracks THEN w
    ELSE IF c.op \in EventOps THEN [w EXCEPT ![c.idx + 1][c.op] = @ + 1]
    ELSE IF c.op = "erm" /\ ~panicked THEN [w EXCEPT ![c.idx + 1] = ErmWin0]
    ELSE w

(***************************************************************************)
(* The messages a call of an encoder can return in State s, one per        *)
(* reading of the clock; none if the call panics.                          *)
(***************************************************************************)
\* bpm_sm
bpm_sm(s) ==
    { r.loc.bytes : r \in { x \in Run(Call("sm", -1, << >>), s) : ~x.panicked } }

\* bpm_erm
bpm_erm(s, track_idx) ==
    { r.loc.bytes : r \in { x \in Run(Call("erm", track_idx, << >>), s) : ~x.panicked } }

\* The value of the counter whose tag byte is at tag_at.
CounterAt(data, tag_at) == from_be_bytes(Slice(data, tag_at + 1, tag_at + 5))

(***************************************************************************)
(* The sequential caller: every call runs start to finish, as the mutex    *)
(* makes it.                                                               *)
(***************************************************************************)
Result(c, ptr, ret, panicked) ==
    [op |-> c.op, idx |-> c.idx, ptr |-> ptr, ret |-> ret, panicked |-> panicked]

\* A panic unwinds out of the call (the guard unlocks the mutex, the State
\* stays as the panic found it) or aborts the process, as the build and the
\* caller's language decide.
AfterPanic(panicked) == IF panicked THEN { TRUE, FALSE } ELSE { FALSE }

\* Call c made with the C argument ptr, run as one step.
Do(c, ptr) ==
    /\ ~aborted
    /\ \E r \in Run(c, state) :
          /\ state' = r.s
          /\ last' = Result(c, ptr, IF c.op = "get_track_index" THEN r.loc.n ELSE -1,
                            r.panicked)
          /\ aborted' \in AfterPanic(r.panicked)
          /\ seen' = SeenAfter(seen, c)
          /\ returned' = ReturnedAfter(returned, c, r.loc.n, r.panicked)
          /\ calls' = Counted(calls, c)
          /\ sm_win' = SmWinAfter(sm_win, c, r.panicked)
          /\ erm_win' = ErmWinAfter(erm_win, c, r.panicked)
    /\ UNCHANGED << lock, threads, begun, heap, out >>

\* Fingerprints a caller may pass: any it passed before, and as a first
\* sighting the next of the pool, which the callers go through upwards from
\* FP(1) or downwards from FP(NumFingerprints).
FingerprintInputs ==
    LET n == Len(state.track_map)
        known == { state.track_map[i] : i \in 1 .. n }
    IN  known \cup
        (IF n = 0 THEN { FP(1), FP(NumFingerprints) }
         ELSE IF state.track_map[1] = FP(1) THEN { FP(n + 1) }
         ELSE { FP(NumFingerprints - n) })

PtrInputs == { NullPtr } \cup { CStr(b) : b \in BadStrings \cup FingerprintInputs }

\* bpm_get_track_index
bpm_get_track_index(track_fp) ==
    LET track_fp_str == c_char_to_string(track_fp)
    IN  IF track_fp_str.some
        THEN Do(Call("get_track_index", -1, track_fp_str.val), track_fp)
        ELSE /\ ~aborted
             /\ last' = Result(Call("get_track_index", -1, << >>), track_fp, -1, FALSE)
             /\ UNCHANGED << state, aborted, seen, returned, calls, sm_win, erm_win, lock, threads,
                            begun, heap, out >>

GetTrackIndex == \E track_fp \in PtrInputs : bpm_get_track_index(track_fp)

\* bpm_frame_encoded
bpm_frame_encoded(track_idx) == Do(Call("frame_encoded", track_idx, << >>), NullPtr)

\* bpm_frame_lagged
bpm_frame_lagged(track_idx) == Do(Call("frame_lagged", track_idx, << >>), NullPtr)

\* bpm_frame_dropped
bpm_frame_dropped(track_idx) == Do(Call("frame_dropped", track_idx, << >>), NullPtr)

FrameEncoded ==
    \E track_idx \in TrackIdxInputs : NumEvents < MaxEvents /\ bpm_frame_encoded(track_idx)

FrameLagged ==
    \E track_idx \in TrackIdxInputs : NumEvents < MaxEvents /\ bpm_frame_lagged(track_idx)

FrameDropped ==
    \E track_idx \in TrackIdxInputs : NumEvents < MaxEvents /\ bpm_frame_dropped(track_idx)

\* A call of bpm_sm: it returns one of bpm_sm(state).
Sm == ~aborted /\ Do(Call("sm", -1, << >>), NullPtr)

\* A call of bpm_erm: it returns one of bpm_erm(state, track_idx).
Erm ==
    \E track_idx \in TrackIdxInputs :
        ~aborted /\ Do(Call("erm", track_idx, << >>), NullPtr)

\* The messages a call of bpm_ts can return.
TsMessages ==
    { bpm_ts(a[1], a[2], a[3], a[4], now) : a \in TsInputs, now \in now_in_rfc3339 }

\* A call of bpm_ts, which takes no lock and reads no State: it returns one
\* of TsMessages.
Ts ==
    /\ ~aborted
    /\ last' = Result(Call("ts", -1, << >>), NullPtr, -1, FALSE)
    /\ UNCHANGED << state, aborted, seen, returned, calls, sm_win, erm_win, lock, threads,
                            begun, heap, out >>

NoThreads == << >>

Init ==
    /\ state = StateDefault
    /\ aborted = FALSE
    /\ last = Result(Call("none", -1, << >>), NullPtr, -1, FALSE)
    /\ seen = << >>
    /\ returned = { }
    /\ calls = Calls0
    /\ sm_win = SmWin0
    /\ erm_win = [i \in 1 .. MAX_OUTPUT_VIDEO_ENCODERS |-> ErmWin0]
    /\ lock = 0
    /\ threads = NoThreads
    /\ begun = 0
    /\ heap = << >>
    /\ out = NoOut

\* The registry and the frame events.
Next ==
    \/ GetTrackIndex
    \/ FrameEncoded
    \/ FrameLagged
    \/ FrameDropped

Spec == Init /\ [][Next]_vars

\* The frame events and the reports.
NextReport ==
    \/ FrameEncoded
    \/ FrameLagged
    \/ FrameDropped
    \/ Sm
    \/ Erm
    \/ Ts

SpecReport == Init /\ [][NextReport]_vars

(***************************************************************************)
(* Concurrent callers.  A thread in a call waits for the mutex ("lock"),   *)
(* runs the body statement by statement holding it ("body"), and releases  *)
(* it when the guard is dropped at the return ("unlock").                  *)
(***************************************************************************)
ThreadIds == { 1, 2 }

Idle == [pc |-> "idle", call |-> Call("none", -1, << >>), k |-> 0, loc |-> Locals0]

\* The calls the threads make: two fingerprints, the primary track, another
\* track and an index past the counter arrays.
ThreadCalls ==
    { Call("get_track_index", -1, FP(n)) : n \in { 1, 2 } }
    \cup { Call(op, i, << >>) : op \in EventOps, i \in { 0, 1, MAX_OUTPUT_VIDEO_ENCODERS } }
    \cup { Call("sm", -1, << >>) }
    \cup { Call("erm", i, << >>) : i \in { 0, 1 } }

\* Mutex::lock that never waits.
MutexFree_no_exclusion == TRUE

\* Mutex::lock returns only while no thread holds the mutex.
MutexFree == lock = 0

\* Thread t enters call c: up to STATE.lock().
Begin(t, c) ==
    /\ ~aborted
    /\ threads[t].pc = "idle"
    /\ begun < MaxThreadCalls
    /\ begun' = begun + 1
    /\ threads' = [threads EXCEPT ![t] = [@ EXCEPT !.pc = "lock", !.call = c, !.k = 1,
                                                   !.loc = Locals0]]
    /\ seen' = SeenAfter(seen, c)
    /\ UNCHANGED << state, aborted, last, returned, calls, sm_win, erm_win, lock,
                    heap, out >>

\* STATE.lock() returns to thread t.
Lock(t) ==
    /\ ~aborted
    /\ threads[t].pc = "lock"
    /\ MutexFree
    /\ lock' = t
    /\ threads' = [threads EXCEPT ![t].pc = "body"]
    /\ UNCHANGED << state, aborted, last, seen, returned, calls, sm_win, erm_win, begun, heap, out >>

\* Thread t runs the next statement of its call.  A panic ends the call:
\* unwinding drops the guard, which unlocks the mutex, or the process aborts.
Exec(t) ==
    /\ ~aborted
    /\ threads[t].pc = "body"
    /\ \E r \in Stmt(threads[t].call, threads[t].k, state, threads[t].loc) :
          /\ state' = r.s
          /\ aborted' \in AfterPanic(r.panicked)
          /\ threads' = [threads EXCEPT ![t] =
                [@ EXCEPT !.loc = r.loc, !.k = r.next,
                          !.pc = IF r.panicked THEN "idle"
                                 ELSE IF r.next = 0 THEN "unlock" ELSE "body"]]
          /\ lock' = IF r.panicked THEN 0 ELSE lock
          /\ calls' = IF r.panicked \/ r.next = 0
                      THEN Counted(calls, threads[t].call) ELSE calls
          /\ returned' = IF r.next = 0
                         THEN ReturnedAfter(returned, threads[t].call, r.loc.n, r.panicked)
                         ELSE returned
    /\ UNCHANGED << last, seen, sm_win, erm_win, begun, heap, out >>

\* The guard of thread t is dropped as its call returns.
Unlock(t) ==
    /\ ~aborted
    /\ threads[t].pc = "unlock"
    /\ lock' = 0
    /\ threads' = [threads EXCEPT ![t].pc = "idle"]
    /\ UNCHANGED << state, aborted, last, seen, returned, calls, sm_win, erm_win, begun, heap, out >>

ThreadBegin == \E t \in ThreadIds, c \in ThreadCalls : Begin(t, c)

ThreadLock == \E t \in ThreadIds : Lock(t)

ThreadExec == \E t \in ThreadIds : Exec(t)

ThreadUnlock == \E t \in ThreadIds : Unlock(t)

InitThreads ==
    /\ state = StateDefault
    /\ aborted = FALSE
    /\ last = Result(Call("none", -1, << >>), NullPtr, -1, FALSE)
    /\ seen = << >>
    /\ returned = { }
    /\ calls = Calls0
    /\ sm_win = SmWin0
    /\ erm_win = [i \in 1 .. MAX_OUTPUT_VIDEO_ENCODERS |-> ErmWin0]
    /\ lock = 0
    /\ threads = [t \in ThreadIds |-> Idle]
    /\ begun = 0
    /\ heap = << >>
    /\ out = NoOut

NextThreads ==
    \/ ThreadBegin
    \/ ThreadLock
    \/ ThreadExec
    \/ ThreadUnlock

SpecThreads == InitThreads /\ [][NextThreads]_vars

(***************************************************************************)
(* Properties of the registry and the frame events (Spec)                  *)
(***************************************************************************)
\* The step is a call of op on track_idx.
EventStep(op, track_idx) == calls' = Counted(calls, Call(op, track_idx, << >>))

\* C1: every index bpm_get_track_index ever returned for a fingerprint is
\* the rank of that fingerprint's first sighting among the fingerprints
\* seen (0 for the first ever seen, 1 for the next, ...), whatever calls
\* came in between.  So one fingerprint always gets one index, two
\* fingerprints never share one, and no index changes or disappears.
C1_IndexIsFirstSeenRank ==
    \A p \in returned :
        /\ 0 <= p[2] /\ p[2] < Len(seen)
        /\ seen[p[2] + 1] = p[1]

\* A fingerprint other than the first of the pool was seen first, others
\* were registered and frames recorded, and resolving it again returned 0.
C1_Witness ==
    /\ last.op = "get_track_index" /\ ~last.panicked /\ last.ret = 0
    /\ last.ptr = CStr(FP(NumFingerprints))
    /\ Len(state.track_map) >= 3
    /\ NumEvents > 0

\* C2: the registry never holds more than MAX_OUTPUT_VIDEO_ENCODERS
\* fingerprints; with the registry full, resolving a fingerprint it does not
\* hold panics and leaves the State (registry and counters) as it was, and
\* resolving one it holds returns that fingerprint's original index.
C2_Capacity ==
    [][ /\ Len(state'.track_map) <= MAX_OUTPUT_VIDEO_ENCODERS
        /\ ( /\ last'.op = "get_track_index"
             /\ c_char_to_string(last'.ptr).some
             /\ Len(state.track_map) = MAX_OUTPUT_VIDEO_ENCODERS )
           => LET fp == c_char_to_string(last'.ptr).val
                  known == \E i \in 1 .. Len(state.track_map) : state.track_map[i] = fp
              IN  /\ state' = state
                  /\ ~known => last'.panicked
                  /\ known => /\ ~last'.panicked
                              /\ seen[last'.ret + 1] = fp ]_vars

\* Frames were recorded, the registry is full, and a call with one more
\* fingerprint has panicked.
C2_Witness ==
    /\ last.op = "get_track_index" /\ last.panicked
    /\ Len(state.track_map) = MAX_OUTPUT_VIDEO_ENCODERS
    /\ Len(seen) = MAX_OUTPUT_VIDEO_ENCODERS + 1
    /\ NumEvents > 0

\* C3: bpm_frame_encoded(k) for a track k adds exactly 1 to sm_output, to
\* erm_input[k] and to erm_output[k], adds exactly 1 to sm_rendered if k = 0
\* and nothing if k > 0, and leaves sm_lagged, sm_dropped, erm_skipped and
\* the counters of every other track as they were.
C3_EncodedIncrements ==
    [][ \A k \in Tracks :
          EventStep("frame_encoded", k) =>
            /\ Val(state'.sm_output) = Val(state.sm_output) + 1
            /\ Val(state'.sm_rendered) = Val(state.sm_rendered) + (IF k = 0 THEN 1 ELSE 0)
            /\ Val(state'.erm_input[k + 1]) = Val(state.erm_input[k + 1]) + 1
            /\ Val(state'.erm_output[k + 1]) = Val(state.erm_output[k + 1]) + 1
            /\ state'.sm_lagged = state.sm_lagged
            /\ state'.sm_dropped = state.sm_dropped
            /\ state'.erm_skipped = state.erm_skipped
            /\ \A j \in Tracks \ { k } :
                  /\ state'.erm_input[j + 1] = state.erm_input[j + 1]
                  /\ state'.erm_output[j + 1] = state.erm_output[j + 1] ]_vars

\* A frame was encoded on track 0 and then one on track 1.
C3_Witness ==
    /\ last.op = "frame_encoded" /\ last.idx = 1 /\ ~last.panicked
    /\ NumCalls(calls, "frame_encoded", 0) = 1
    /\ Val(state.sm_rendered) = 1 /\ Val(state.sm_output) = 2

\* C8 as claimed: a frame event whose track_idx is not an index of the
\* registry (track_idx >= track_map.len()) panics and leaves every counter
\* as it was.
C8_UnregisteredRejected ==
    [][ \A op \in EventOps, k \in TrackIdxInputs :
          (EventStep(op, k) /\ k >= Len(state.track_map))
            => (last'.panicked /\ state' = state) ]_vars

(***************************************************************************)
(* Properties of the reports (SpecReport).  bpm_sm(state) and              *)
(* bpm_erm(state, i) are the messages a call made in the current state     *)
(* returns; the offsets of the counter tags are those the encoders write.  *)
(***************************************************************************)
\* The four counter values of a Session Metrics message.
SmValues(m) ==
    [rendered |-> Val(CounterAt(m, 45)), lagged |-> Val(CounterAt(m, 50)),
     dropped |-> Val(CounterAt(m, 55)), output |-> Val(CounterAt(m, 61))]

\* The three counter values of an Encoded Rendition Metrics message.
ErmValues(m) ==
    [input |-> Val(CounterAt(m, 45)), skipped |-> Val(CounterAt(m, 50)),
     output |-> Val(CounterAt(m, 55))]

\* C4 as claimed: for every track i, when the frame events on track i since
\* the last Rendition Metrics message for i are N bpm_frame_lagged(i) and M
\* bpm_frame_dropped(i) and nothing else, the next message for i reports
\* skipped = N + M, input = N + M and output = 0.
C4_LaggedDroppedDelta ==
    \A i \in Tracks :
        LET w == erm_win[i + 1]
            n == w.frame_lagged + w.frame_dropped
        IN  w.frame_encoded = 0 =>
              \A m \in bpm_erm(state, i) :
                  ErmValues(m) = [input |-> n, skipped |-> n, output |-> 0]

\* C5 as claimed: each counter value of a Session Metrics message is the
\* number of increments due to that counter since the previous Session
\* Metrics message (since the start for the first).
C5_SessionDelta ==
    \A m \in bpm_sm(state) : SmValues(m) = sm_win

\* C6 as claimed: a report made right after the same report (for the same
\* track), with no frame event in between, has all its counter values 0.
C6_SecondReportZero ==
    /\ (last.op = "sm" /\ ~last.panicked) =>
          \A m \in bpm_sm(state) :
              SmValues(m) = [rendered |-> 0, lagged |-> 0, dropped |-> 0, output |-> 0]
    /\ (last.op = "erm" /\ ~last.panicked) =>
          \A m \in bpm_erm(state, last.idx) :
              ErmValues(m) = [input |-> 0, skipped |-> 0, output |-> 0]

\* C7 as claimed: a Timestamp, a Session Metrics and a Rendition Metrics
\* message are 250 bytes together, and each starts with its own UUID.
C7_CombinedPayload250 ==
    \A ts \in TsMessages, sm \in bpm_sm(state), i \in Tracks :
        \A erm \in bpm_erm(state, i) :
            /\ Len(ts) + Len(sm) + Len(erm) = 250
            /\ Slice(ts, 0, SEI_UUID_SIZE) = UUID_TS
            /\ Slice(sm, 0, SEI_UUID_SIZE) = UUID_SM
            /\ Slice(erm, 0, SEI_UUID_SIZE) = UUID_ERM

(***************************************************************************)
(* Properties of concurrent callers (SpecThreads)                          *)
(***************************************************************************)
\* The counters of State s hold exactly what the finished calls h are due.
Consistent(s, h) ==
    /\ Val(s.sm_rendered) = NumCalls(h, "frame_encoded", 0)
    /\ Val(s.sm_output) = NumCallsOf(h, "frame_encoded")
    /\ Val(s.sm_lagged) = NumCallsOf(h, "frame_lagged")
    /\ Val(s.sm_dropped) = NumCallsOf(h, "frame_dropped")
    /\ \A i \in Tracks :
          /\ Val(s.erm_output[i + 1]) = NumCalls(h, "frame_encoded", i)
          /\ Val(s.erm_skipped[i + 1]) =
                NumCalls(h, "frame_lagged", i) + NumCalls(h, "frame_dropped", i)
          /\ Val(s.erm_input[i + 1]) =
                NumCalls(h, "frame_encoded", i) + NumCalls(h, "frame_lagged", i)
                + NumCalls(h, "frame_dropped", i)

\* C9: however the threads interleave, the indices returned map the
\* fingerprints one to one, each returned index is the place of its
\* fingerprint in the registry, and no fingerprint is registered twice.
C9_OneIndexPerFingerprint ==
    /\ \A p, q \in returned : (p[1] = q[1]) <=> (p[2] = q[2])
    /\ \A p \in returned :
          /\ 0 <= p[2] /\ p[2] < Len(state.track_map)
          /\ state.track_map[p[2] + 1] = p[1]
    /\ \A i, j \in 1 .. Len(state.track_map) :
          state.track_map[i] = state.track_map[j] => i = j

\* Both threads are in their first call, for the same new fingerprint: one
\* has registered it and got index 0, the other waits for the mutex.
C9_Witness ==
    /\ threads[1].pc = "unlock" /\ threads[1].call = Call("get_track_index", -1, FP(2))
    /\ threads[1].loc.n = 0
    /\ threads[2].pc = "lock" /\ threads[2].call = threads[1].call
    /\ begun = 2
    /\ state.track_map = << FP(2) >>

\* C10: whenever the mutex is free the counters hold exactly what the
\* finished frame events are due (no increment is lost, none is half
\* applied), and the message a thread has built when bpm_sm or bpm_erm
\* returns holds exactly what the finished frame events are due.
C10_Atomic ==
    /\ lock = 0 => Consistent(state, calls)
    /\ \A t \in ThreadIds :
          threads[t].pc = "unlock" =>
            /\ threads[t].call.op = "sm" =>
                  SmValues(threads[t].loc.bytes) =
                    [rendered |-> NumCalls(calls, "frame_encoded", 0),
                     lagged |-> NumCallsOf(calls, "frame_lagged"),
                     dropped |-> NumCallsOf(calls, "frame_dropped"),
                     output |-> NumCallsOf(calls, "frame_encoded")]
            /\ threads[t].call.op = "erm" =>
                  LET i == threads[t].call.idx
                  IN  ErmValues(threads[t].loc.bytes) =
                        [input |-> NumCalls(calls, "frame_encoded", i)
                                   + NumCalls(calls, "frame_lagged", i)
                                   + NumCalls(calls, "frame_dropped", i),
                         skipped |-> NumCalls(calls, "frame_lagged", i)
                                     + NumCalls(calls, "frame_dropped", i),
                         output |-> NumCalls(calls, "frame_encoded", i)]

\* A frame was encoded on track 0; one thread has built a Session Metrics
\* message showing it and still holds the mutex, on which the other thread
\* waits with a second frame.
C10_Witness ==
    /\ threads[1].pc = "unlock" /\ threads[1].call.op = "sm"
    /\ SmValues(threads[1].loc.bytes).output = 1
    /\ threads[2].pc = "lock" /\ threads[2].call = Call("frame_encoded", 0, << >>)

(***************************************************************************)
(* Counters near u32::MAX.  A process that has recorded 2^32 - 2 or        *)
(* 2^32 - 1 frames holds counters the frame events can take over the top.  *)
(* Here calls counts the frame events since the first state only.          *)
(***************************************************************************)
\* The State after x calls of bpm_frame_encoded(0) and y calls of
\* bpm_frame_lagged(1) from State::default, in any order.
StateAfter(x, y) ==
    [StateDefault EXCEPT !.sm_rendered = x, !.sm_output = x, !.sm_lagged = y,
                         !.erm_input = [@ EXCEPT ![1] = x, ![2] = y],
                         !.erm_output = [@ EXCEPT ![1] = x],
                         !.erm_skipped = [@ EXCEPT ![2] = y]]

\* Numbers of frames recorded before the first state: none, or one or none
\* short of u32::MAX.
FramesBefore == { U32Zero, U32(Half - 1, Half - 2), U32_MAX }

InitOverflow ==
    /\ \E x, y \in FramesBefore : state = StateAfter(x, y)
    /\ aborted = FALSE
    /\ last = Result(Call("none", -1, << >>), NullPtr, -1, FALSE)
    /\ seen = << >>
    /\ returned = { }
    /\ calls = Calls0
    /\ sm_win = SmWin0
    /\ erm_win = [i \in 1 .. MAX_OUTPUT_VIDEO_ENCODERS |-> ErmWin0]
    /\ lock = 0
    /\ threads = NoThreads
    /\ begun = 0
    /\ heap = << >>
    /\ out = NoOut

\* The frame events alone.
NextEvents ==
    \/ FrameEncoded
    \/ FrameLagged
    \/ FrameDropped

SpecOverflow == InitOverflow /\ [][NextEvents]_vars

\* The frame events alone, from State::default.
SpecEvents == Init /\ [][NextEvents]_vars

\* a < b on u32
Less(a, b) == a.hi < b.hi \/ (a.hi = b.hi /\ a.lo < b.lo)

\* Every cumulative counter of a State.
Counters(s) ==
    << s.sm_rendered, s.sm_lagged, s.sm_dropped, s.sm_output >>
    \o s.erm_input \o s.erm_skipped \o s.erm_output

\* C11: no step makes a cumulative counter smaller, an increment of a
\* counter holding u32::MAX included.
C11_NeverWraps ==
    [][\A i \in 1 .. Len(Counters(state)) :
          ~Less(Counters(state')[i], Counters(state)[i])]_vars

(***************************************************************************)
(* Buffers handed across the C boundary.  An address is a positive number, *)
(* the null pointer is 0.                                                  *)
(***************************************************************************)
\* Buffers allocated in one behaviour.
MaxBuffers == 3

\* An out-pointer argument: null, or the address of the caller's variable.
OutPtrInputs == { 0, 1 }

\* The data argument of bpm_destroy: null, or an address, of a buffer or of
\* memory this library never returned.
DestroyInputs == 0 .. MaxBuffers

\* Box::into_raw(Box::new(ts)): the heap with a new allocation holding ts,
\* at the next address.
BoxNew(h, ts) == Append(h, [bytes |-> ts, live |-> TRUE])

\* data is the address of a buffer returned and not yet released.
Live(h, data) == data \in 1 .. Len(h) /\ h[data].live

\* The body bpm_ts_ptr, bpm_sm_ptr and bpm_erm_ptr have in common, for the
\* message ts each of them builds.
MessagePtr(op, ts, ts_data, ts_size) ==
    /\ ~aborted
    /\ IF ts_data = 0 \/ ts_size = 0
       THEN /\ last' = Result(Call(op, -1, << >>), NullPtr, -1, FALSE)
            /\ UNCHANGED << heap, out >>
       ELSE /\ heap' = BoxNew(heap, ts)
            /\ out' = [data |-> Len(heap) + 1, size |-> Len(ts)]
            /\ last' = Result(Call(op, -1, << >>), NullPtr, 0, FALSE)
    /\ UNCHANGED << state, aborted, seen, returned, calls, sm_win, erm_win, lock, threads,
                    begun >>

\* bpm_ts_ptr: let ts = bpm_ts(0, 0, 0, 0)
bpm_ts_ptr(ts_data, ts_size) ==
    \E now \in now_in_rfc3339 :
        MessagePtr("ts_ptr", bpm_ts(0, 0, 0, 0, now), ts_data, ts_size)

\* bpm_sm_ptr: let ts = bpm_ts(0, 0, 0, 0)
bpm_sm_ptr(ts_data, ts_size) ==
    \E now \in now_in_rfc3339 :
        MessagePtr("sm_ptr", bpm_ts(0, 0, 0, 0, now), ts_data, ts_size)

\* bpm_erm_ptr: let ts = bpm_ts(0, 0, 0, 0)
bpm_erm_ptr(ts_data, ts_size) ==
    \E now \in now_in_rfc3339 :
        MessagePtr("erm_ptr", bpm_ts(0, 0, 0, 0, now), ts_data, ts_size)

\* bpm_destroy, which returns nothing.  Null: nothing is done.  A buffer
\* still allocated: Box::from_raw and drop free it.  Any other address:
\* freeing it is undefined behaviour, which the allocator detects, aborting
\* the process, or does not.  last.idx holds the address passed.
bpm_destroy(data) ==
    /\ ~aborted
    /\ last' = Result(Call("destroy", data, << >>), NullPtr, -1, FALSE)
    /\ IF data = 0
       THEN UNCHANGED << heap, aborted >>
       ELSE IF Live(heap, data)
            THEN /\ heap' = [heap EXCEPT ![data].live = FALSE]
                 /\ UNCHANGED aborted
            ELSE /\ aborted' \in { TRUE, FALSE }
                 /\ UNCHANGED heap
    /\ UNCHANGED << state, seen, returned, calls, sm_win, erm_win, lock, threads, begun,
                    out >>

TsPtr ==
    \E ts_data, ts_size \in OutPtrInputs :
        Len(heap) < MaxBuffers /\ bpm_ts_ptr(ts_data, ts_size)

SmPtr ==
    \E ts_data, ts_size \in OutPtrInputs :
        Len(heap) < MaxBuffers /\ bpm_sm_ptr(ts_data, ts_size)

ErmPtr ==
    \E ts_data, ts_size \in OutPtrInputs :
        Len(heap) < MaxBuffers /\ bpm_erm_ptr(ts_data, ts_size)

Destroy == \E data \in DestroyInputs : bpm_destroy(data)

NextBuffers ==
    \/ TsPtr
    \/ SmPtr
    \/ ErmPtr
    \/ Destroy

SpecBuffers == Init /\ [][NextBuffers]_vars

\* C12: releasing a null pointer or an address that is not a buffer still
\* allocated is reported as a fatal error, and releasing a buffer still
\* allocated succeeds and leaves it released.
C12_ReleaseReportsError ==
    [][\A data \in DestroyInputs :
          bpm_destroy(data) =>
            IF Live(heap, data)
            THEN ~aborted' /\ ~Live(heap', data)
            ELSE aborted']_vars

\* C15: the buffer a *_ptr function hands out holds the message of its kind
\* and the size written is that message's size.
C15_PtrReturnsItsKind ==
    (last.ret = 0 /\ last.op \in { "ts_ptr", "sm_ptr", "erm_ptr" }) =>
        LET uuid == Slice(heap[out.data].bytes, 0, SEI_UUID_SIZE)
        IN  CASE last.op = "ts_ptr" -> uuid = UUID_TS /\ out.size = TS_LEN
              [] last.op = "sm_ptr" -> uuid = UUID_SM /\ out.size = SM_LEN
              [] last.op = "erm_ptr" -> uuid = UUID_ERM /\ out.size = ERM_LEN

(***************************************************************************)
(* Properties of bpm_get_track_index's argument check (Spec).              *)
(***************************************************************************)
\* C13: a call of bpm_get_track_index with the null pointer or with bytes
\* that are not UTF-8 returns -1, does not panic or abort, and leaves the
\* State (registry and counters) as it was, whatever the State is.
C13_BadPointerRejected ==
    [][(/\ last'.op = "get_track_index"
        /\ last'.ptr \in { NullPtr } \cup { CStr(b) : b \in BadStrings })
          => /\ last'.ret = -1
             /\ ~last'.panicked
             /\ ~aborted'
             /\ state' = state]_vars

\* The registry is full and a call with an overlong encoding has just
\* returned -1.
C13_Witness ==
    /\ Len(state.track_map) = MAX_OUTPUT_VIDEO_ENCODERS
    /\ last.op = "get_track_index"
    /\ last.ptr = CStr(<< 192, 128 >>)
    /\ last.ret = -1
    /\ ~aborted

(***************************************************************************)
(* Layout of the Session Metrics message (SpecReport).                     *)
(***************************************************************************)
\* C14: in every Session Metrics message byte 44 is 0x03 and the four
\* counters follow back to back from byte 45, five bytes each: the tag
\* (1, 2, 3, 4 for rendered, lagged, dropped, output), then the value in
\* big-endian.
C14_SmCountersContiguous ==
    \A m \in bpm_sm(state) :
        LET values == << state.sm_rendered, state.sm_lagged, state.sm_dropped,
                         state.sm_output >>
        IN  /\ m[44 + 1] = 3
            /\ \A j \in 0 .. 3 :
                  /\ m[45 + 5 * j + 1] = j + 1
                  /\ Slice(m, 46 + 5 * j, 50 + 5 * j) = to_be_bytes(values[j + 1])

(***************************************************************************)
(* Frame events past the end of the counter arrays (Spec).                 *)
(***************************************************************************)
\* C16: a frame event whose track_idx is MAX_OUTPUT_VIDEO_ENCODERS or more
\* fails and leaves the whole State as it was.
C16_FailedEventChangesNothing ==
    [][\A op \in EventOps, k \in TrackIdxInputs :
          (EventStep(op, k) /\ k >= MAX_OUTPUT_VIDEO_ENCODERS)
            => (last'.panicked /\ state' = state)]_vars

(***************************************************************************)
(* Order of the frame events (SpecEvents).                                 *)
(***************************************************************************)
\* Every frame event call the model makes.
EventCalls == { Call(op, k, << >>) : op \in EventOps, k \in TrackIdxInputs }

\* The States call c can leave, started in a State of S (a panic that
\* unwinds leaves the State as it found it).
After(c, S) == UNION { { r.s : r \in Run(c, s) } : s \in S }

\* C17: from every reachable State, two frame events applied in either
\* order leave the same State (of which the messages rendered afterwards
\* are a function).
C17_EventsCommute ==
    \A c1, c2 \in EventCalls :
        LET ab == After(c2, After(c1, { state }))
            ba == After(c1, After(c2, { state }))
        IN  ab = ba

\* A frame was encoded and then one lagged on track 0, and the State is the
\* one the opposite order leaves.
C17_Witness ==
    /\ last.op = "frame_lagged" /\ last.idx = 0
    /\ NumCalls(calls, "frame_encoded", 0) = 1
    /\ NumEvents = 2
    /\ state.track_map = << >>
    /\ state \in After(Call("frame_encoded", 0, << >>),
                       After(Call("frame_lagged", 0, << >>), { StateDefault }))

(***************************************************************************)
(* Relations between the counters (Spec), below counter overflow.          *)
(***************************************************************************)
\* C18: in every State, for every track, the frames input are the frames
\* output plus the frames skipped.  Frame events that failed are no
\* exception: they fail before they touch a per-track counter.
C18_InputIsOutputPlusSkipped ==
    \A i \in 1 .. MAX_OUTPUT_VIDEO_ENCODERS :
        Val(state.erm_input[i]) = Val(state.erm_output[i]) + Val(state.erm_skipped[i])

\* One frame was encoded and one dropped on track 0.
C18_Witness ==
    /\ NumCalls(calls, "frame_encoded", 0) = 1
    /\ NumCalls(calls, "frame_dropped", 0) = 1
    /\ Val(state.erm_input[1]) = 2
    /\ Val(state.erm_output[1]) = 1
    /\ Val(state.erm_skipped[1]) = 1

\* The sum of the values of a per-track counter.
SumTracks(v) == SumSeq([i \in 1 .. Len(v) |-> Val(v[i])])

\* No frame event was called with a track_idx past the counter arrays, the
\* one way a frame event fails below overflow.
NoFailedEvent ==
    \A op \in EventOps : NumCalls(calls, op, MAX_OUTPUT_VIDEO_ENCODERS) = 0

\* C19: as long as every frame event completed, sm_output is the sum of
\* erm_output over the tracks, sm_rendered is erm_output of track 0, and
\* sm_lagged + sm_dropped is the sum of erm_skipped over the tracks.
C19_SessionMatchesTracks ==
    NoFailedEvent =>
        /\ Val(state.sm_output) = SumTracks(state.erm_output)
        /\ Val(state.sm_rendered) = Val(state.erm_output[1])
        /\ Val(state.sm_lagged) + Val(state.sm_dropped) = SumTracks(state.erm_skipped)

\* A frame was encoded on track 1 and one dropped on the last track, and
\* nothing failed.
C19_Witness ==
    /\ NoFailedEvent
    /\ NumCalls(calls, "frame_encoded", 1) = 1
    /\ NumCalls(calls, "frame_dropped", MAX_OUTPUT_VIDEO_ENCODERS - 1) = 1
    /\ Val(state.sm_output) = 1 /\ Val(state.sm_rendered) = 0
    /\ Val(state.sm_dropped) = 1

====
